---- MODULE Spec2Model ----
(***************************************************************************)
(* Server-side session middleware of poem                                  *)
(* (poem/src/session/server_session.rs, ServerSessionEndpoint::call).      *)
(*                                                                         *)
(* Every request is an independent task that walks through `call`; the     *)
(* awaits on the storage (load_session, update_session, remove_session)    *)
(* and on the inner endpoint are the points where requests interleave.     *)
(* Session, CookieConfig and SessionStorage are declared elsewhere in the  *)
(* crate; they are modelled from their documented contract.                *)
(*                                                                         *)
(* The middleware keeps no state across requests: requests meet only in    *)
(* the storage.  Under Spec one task serves requests one after the other   *)
(* and everything else that touches the storage (other requests, other     *)
(* clients, the records' TTL) is the environment.  Under SpecConc two      *)
(* tasks each serve one request bearing the same cookie identifier, their  *)
(* steps interleaved, with no environment.                                 *)
(***************************************************************************)
EXTENDS Integers, Sequences, FiniteSets, TLC

\* ------------------------------------------------------------- bounds
MaxRequests == 2 \* requests a task serves in a behaviour
NumIds == 2      \* distinct values generate_session_id / a cookie can take
MaxOps == 2      \* session operations a handler performs in one request

Reqs == {"a", "b"}   \* request tasks
Solo == {"a"}        \* the task that runs under Spec (the others stay idle)
Ids == 1..NumIds
NoId == 0        \* Option::None of a session identifier
Keys == {"user", "cart"}
Vals == {42}         \* values a handler writes

\* ------------------------------------------------------------- values
\* An entry mapping: a finite map from keys to values.
EmptyEntries == [k \in {} |-> 42]

Put(e, k, v) == [x \in DOMAIN e \cup {k} |-> IF x = k THEN v ELSE e[x]]
Del(e, k) == [x \in DOMAIN e \ {k} |-> e[x]]

\* Option<entries>: {} is None, {e} is Some(e).
None == {}
Some(e) == {e}
Unwrap(o) == CHOOSE e \in o : TRUE

VARIABLES
    store,       \* the storage backend: identifier -> Option<entries>
    written,     \* identifier -> Option<entries last passed to a successful update_session,
                 \*               and whether that request set the cookie>, None once the
                 \*               record is removed, expired or overwritten from outside
    served,      \* requests that have arrived
    pc,          \* request -> position in `call`
    cookie,      \* request -> identifier in the inbound session cookie (NoId: no cookie)
    session_id,  \* request -> the local `session_id` of `call`
    session,     \* request -> the Session handle: [entries, status]
    jar,         \* request -> what `call` did to the session cookie of the jar
    result,      \* request -> how `call` ended
    log,         \* request -> the calls `call` made, in order
    handed,      \* request -> entries the Session was constructed with
    source,      \* request -> written[id] at the time load_session returned the record
    nops,        \* request -> session operations the handler has performed
    wrote,       \* request -> whether the handler wrote an entry
    mutated,     \* request -> whether the handler called a mutating session operation
    new_id       \* request -> the identifier generated in the persistence step

vars == <<store, written, served, pc, cookie, session_id, session, jar, result, log,
          handed, source, nops, wrote, mutated, new_id>>

\* ------------------------------------------------------------- Session
SessionDefault == [entries |-> EmptyEntries, status |-> "Unchanged"]
SessionNew(e) == [entries |-> e, status |-> "Unchanged"]

\* Later mutations override earlier ones; once Purged, whether a further
\* operation takes effect is implementation-defined, so both outcomes occur.
AfterPurged(s, t) == IF s.status = "Purged" THEN {s, t} ELSE {t}

SessionSet(s, k, v) ==
    AfterPurged(s, [entries |-> Put(s.entries, k, v), status |-> "Changed"])

SessionRemove(s, k) ==
    AfterPurged(s, [entries |-> Del(s.entries, k), status |-> "Changed"])

SessionRenew(s) == AfterPurged(s, [s EXCEPT !.status = "Renewed"])

SessionPurge(s) == {[s EXCEPT !.status = "Purged"]}

\* ------------------------------------------------------------- CookieConfig
JarUntouched == [op |-> "none", id |-> NoId]

get_cookie_value(c) == c

set_cookie_value(j, id) == [op |-> "set", id |-> id]

remove_cookie(j) == [op |-> "removed", id |-> NoId]

\* Set-Cookie headers for the session cookie that the jar's delta produces.
SetCookieCount(j) == IF j.op = "none" THEN 0 ELSE 1

\* ------------------------------------------------------------- SessionStorage
load_session(st, id) == st[id]

update_session(st, id, e) == [st EXCEPT ![id] = Some(e)]

remove_session(st, id) == [st EXCEPT ![id] = None]

\* ------------------------------------------------------------- identifiers
\* 32 random bytes, base64: what one call may return.  Nothing compares the
\* draw with the identifiers in use.
generate_session_id == Ids

\* ------------------------------------------------------------- log
Ev(op, id, e, ok) == [op |-> op, id |-> id, entries |-> e, ok |-> ok]

Count(l, op) == Cardinality({i \in DOMAIN l : l[i].op = op})

Pos(l, op) == {i \in DOMAIN l : l[i].op = op}

\* ------------------------------------------------------------- Init
\* Records written from outside the requests of a behaviour.
EnvEntries == {[k \in {"user"} |-> 41]}

InitStores == [Ids -> {None} \cup {Some(e) : e \in EnvEntries}]

Init ==
    /\ store \in InitStores
    /\ written = [i \in Ids |-> None]
    /\ served = 0
    /\ pc = [r \in Reqs |-> "idle"]
    /\ cookie = [r \in Reqs |-> NoId]
    /\ session_id = [r \in Reqs |-> NoId]
    /\ session = [r \in Reqs |-> SessionDefault]
    /\ jar = [r \in Reqs |-> JarUntouched]
    /\ result = [r \in Reqs |-> "pending"]
    /\ log = [r \in Reqs |-> <<>>]
    /\ handed = [r \in Reqs |-> EmptyEntries]
    /\ source = [r \in Reqs |-> None]
    /\ nops = [r \in Reqs |-> 0]
    /\ wrote = [r \in Reqs |-> FALSE]
    /\ mutated = [r \in Reqs |-> FALSE]
    /\ new_id = [r \in Reqs |-> NoId]

\* ------------------------------------------------------------- call
\* `call` returns: Ok(resp), or the error of the `?` that fired.
Finish(r, res) ==
    /\ result' = [result EXCEPT ![r] = res]
    /\ pc' = [pc EXCEPT ![r] = "done"]

\* Mutant: the inner endpoint is called before load_session has returned.
CallInner_Early(r, s, evs) ==
    /\ session' = [session EXCEPT ![r] = s]
    /\ handed' = [handed EXCEPT ![r] = s.entries]
    /\ log' = [log EXCEPT ![r] = <<Ev("call", NoId, EmptyEntries, TRUE)>> \o evs]
    /\ pc' = [pc EXCEPT ![r] = "handler"]

\* The session is put into the request and the inner endpoint is called.
CallInner(r, s, evs) ==
    /\ session' = [session EXCEPT ![r] = s]
    /\ handed' = [handed EXCEPT ![r] = s.entries]
    /\ log' = [log EXCEPT ![r] = evs \o <<Ev("call", NoId, EmptyEntries, TRUE)>>]
    /\ pc' = [pc EXCEPT ![r] = "handler"]

\* A request arrives; the jar is cloned and the cookie read.
Arrive(r) ==
    /\ pc[r] \in {"idle", "done"}
    /\ served < MaxRequests
    /\ served' = served + 1
    /\ jar' = [jar EXCEPT ![r] = JarUntouched]
    /\ result' = [result EXCEPT ![r] = "pending"]
    /\ source' = [source EXCEPT ![r] = None]
    /\ nops' = [nops EXCEPT ![r] = 0]
    /\ wrote' = [wrote EXCEPT ![r] = FALSE]
    /\ mutated' = [mutated EXCEPT ![r] = FALSE]
    /\ new_id' = [new_id EXCEPT ![r] = NoId]
    /\ \E c \in Ids \cup {NoId} :
        /\ cookie' = [cookie EXCEPT ![r] = c]
        /\ session_id' = [session_id EXCEPT ![r] = get_cookie_value(c)]
        /\ IF get_cookie_value(c) # NoId
           THEN /\ pc' = [pc EXCEPT ![r] = "load"]
                /\ session' = [session EXCEPT ![r] = SessionDefault]
                /\ handed' = [handed EXCEPT ![r] = EmptyEntries]
                /\ log' = [log EXCEPT ![r] = <<>>]
           ELSE CallInner(r, SessionDefault, <<>>)
    /\ UNCHANGED <<store, written>>

\* Mutant: a record that was found is dropped, the session starts empty.
LoadSession_Drop(r) ==
    /\ pc[r] = "load"
    /\ \/ /\ log' = [log EXCEPT ![r] = Append(log[r], Ev("load", session_id[r], EmptyEntries, FALSE))]
          /\ Finish(r, "load_error")
          /\ UNCHANGED <<session_id, session, handed, source>>
       \/ /\ load_session(store, session_id[r]) # None
          /\ CallInner(r, SessionDefault, <<Ev("load", session_id[r], EmptyEntries, TRUE)>>)
          /\ source' = [source EXCEPT ![r] = written[session_id[r]]]
          /\ UNCHANGED <<session_id, result>>
       \/ /\ load_session(store, session_id[r]) = None
          /\ session_id' = [session_id EXCEPT ![r] = NoId]
          /\ CallInner(r, SessionDefault, <<Ev("load", session_id[r], EmptyEntries, TRUE),
                                           Ev("miss", session_id[r], EmptyEntries, TRUE)>>)
          /\ UNCHANGED <<source, result>>
    /\ UNCHANGED <<store, written, served, cookie, jar, nops, wrote, mutated, new_id>>

\* Mutant: a failed load is taken for a missing record (unwrap_or_default).
LoadSession_Swallow(r) ==
    /\ pc[r] = "load"
    /\ \/ /\ session_id' = [session_id EXCEPT ![r] = NoId]
          /\ CallInner(r, SessionDefault, <<Ev("load", session_id[r], EmptyEntries, FALSE)>>)
          /\ UNCHANGED <<source, result>>
       \/ /\ load_session(store, session_id[r]) # None
          /\ CallInner(r, SessionNew(Unwrap(load_session(store, session_id[r]))),
                       <<Ev("load", session_id[r], EmptyEntries, TRUE)>>)
          /\ source' = [source EXCEPT ![r] = written[session_id[r]]]
          /\ UNCHANGED <<session_id, result>>
       \/ /\ load_session(store, session_id[r]) = None
          /\ session_id' = [session_id EXCEPT ![r] = NoId]
          /\ CallInner(r, SessionDefault, <<Ev("load", session_id[r], EmptyEntries, TRUE),
                                           Ev("miss", session_id[r], EmptyEntries, TRUE)>>)
          /\ UNCHANGED <<source, result>>
    /\ UNCHANGED <<store, written, served, cookie, jar, nops, wrote, mutated, new_id>>

\* Mutant: the identifier of a missing record is kept.
LoadSession_KeepId(r) ==
    /\ pc[r] = "load"
    /\ \/ /\ log' = [log EXCEPT ![r] = Append(log[r], Ev("load", session_id[r], EmptyEntries, FALSE))]
          /\ Finish(r, "load_error")
          /\ UNCHANGED <<session_id, session, handed, source>>
       \/ /\ load_session(store, session_id[r]) # None
          /\ CallInner(r, SessionNew(Unwrap(load_session(store, session_id[r]))),
                       <<Ev("load", session_id[r], EmptyEntries, TRUE)>>)
          /\ source' = [source EXCEPT ![r] = written[session_id[r]]]
          /\ UNCHANGED <<session_id, result>>
       \/ /\ load_session(store, session_id[r]) = None
          /\ CallInner(r, SessionDefault, <<Ev("load", session_id[r], EmptyEntries, TRUE),
                                           Ev("miss", session_id[r], EmptyEntries, TRUE)>>)
          /\ UNCHANGED <<session_id, source, result>>
    /\ UNCHANGED <<store, written, served, cookie, jar, nops, wrote, mutated, new_id>>

\* storage.load_session(id).await? and the construction of the Session.
LoadSession(r) ==
    /\ pc[r] = "load"
    /\ \/ /\ log' = [log EXCEPT ![r] = Append(log[r], Ev("load", session_id[r], EmptyEntries, FALSE))]
          /\ Finish(r, "load_error")
          /\ UNCHANGED <<session_id, session, handed, source>>
       \/ /\ load_session(store, session_id[r]) # None
          /\ CallInner(r, SessionNew(Unwrap(load_session(store, session_id[r]))),
                       <<Ev("load", session_id[r], EmptyEntries, TRUE)>>)
          /\ source' = [source EXCEPT ![r] = written[session_id[r]]]
          /\ UNCHANGED <<session_id, result>>
       \/ /\ load_session(store, session_id[r]) = None
          /\ session_id' = [session_id EXCEPT ![r] = NoId]
          /\ CallInner(r, SessionDefault, <<Ev("load", session_id[r], EmptyEntries, TRUE),
                                           Ev("miss", session_id[r], EmptyEntries, TRUE)>>)
          /\ UNCHANGED <<source, result>>
    /\ UNCHANGED <<store, written, served, cookie, jar, nops, wrote, mutated, new_id>>

\* ------------------------------------------------------------- the handler
HandlerOp(r, next, w) ==
    /\ pc[r] = "handler"
    /\ nops[r] < MaxOps
    /\ \E s \in next :
        /\ session' = [session EXCEPT ![r] = s]
        /\ wrote' = [wrote EXCEPT ![r] = wrote[r] \/ (w /\ s.status = "Changed")]
    /\ nops' = [nops EXCEPT ![r] = nops[r] + 1]
    /\ mutated' = [mutated EXCEPT ![r] = TRUE]
    /\ UNCHANGED <<store, written, served, pc, cookie, session_id, jar, result, log,
                   handed, source, new_id>>

HandlerSet(r) ==
    \E k \in Keys, v \in Vals : HandlerOp(r, SessionSet(session[r], k, v), TRUE)

HandlerRemove(r) ==
    \E k \in Keys : HandlerOp(r, SessionRemove(session[r], k), FALSE)

HandlerRenew(r) == HandlerOp(r, SessionRenew(session[r]), FALSE)

HandlerPurge(r) == HandlerOp(r, SessionPurge(session[r]), FALSE)

\* Mutant: the handler's error is dropped and the persistence step runs.
HandlerReturn_ErrPersist(r) ==
    /\ pc[r] = "handler"
    /\ nops' = [nops EXCEPT ![r] = 0]
    /\ \/ /\ log' = [log EXCEPT ![r] = Append(log[r], Ev("return", NoId, EmptyEntries, TRUE))]
          /\ pc' = [pc EXCEPT ![r] = "persist"]
          /\ UNCHANGED result
       \/ /\ log' = [log EXCEPT ![r] = Append(log[r], Ev("return", NoId, EmptyEntries, FALSE))]
          /\ pc' = [pc EXCEPT ![r] = "persist"]
          /\ UNCHANGED result
    /\ UNCHANGED <<store, written, served, cookie, session_id, session, jar, handed,
                   source, wrote, mutated, new_id>>

\* self.inner.call(req).await? : the handler's response, or its error.
HandlerReturn(r) ==
    /\ pc[r] = "handler"
    /\ nops' = [nops EXCEPT ![r] = 0]
    /\ \/ /\ log' = [log EXCEPT ![r] = Append(log[r], Ev("return", NoId, EmptyEntries, TRUE))]
          /\ pc' = [pc EXCEPT ![r] = "persist"]
          /\ UNCHANGED result
       \/ /\ log' = [log EXCEPT ![r] = Append(log[r], Ev("return", NoId, EmptyEntries, FALSE))]
          /\ Finish(r, "handler_error")
    /\ UNCHANGED <<store, written, served, cookie, session_id, session, jar, handed,
                   source, wrote, mutated, new_id>>

\* ------------------------------------------------------------- persistence
\* Mutant: the entries the request started with are persisted, not the current ones.
UpdateCall_Stale(r, id) ==
    \/ /\ store' = update_session(store, id, handed[r])
       /\ written' = [written EXCEPT ![id] =
              Some([entries |-> session[r].entries, cookie_set |-> jar[r].op = "set"])]
       /\ log' = [log EXCEPT ![r] = Append(log[r], Ev("update", id, handed[r], TRUE))]
       /\ Finish(r, "response")
    \/ /\ log' = [log EXCEPT ![r] = Append(log[r], Ev("update", id, handed[r], FALSE))]
       /\ Finish(r, "persist_error")
       /\ UNCHANGED <<store, written>>

\* Mutant: the error of update_session is dropped (`let _ = ...`).
UpdateCall_IgnoreErr(r, id) ==
    \/ /\ store' = update_session(store, id, session[r].entries)
       /\ written' = [written EXCEPT ![id] =
              Some([entries |-> session[r].entries, cookie_set |-> jar[r].op = "set"])]
       /\ log' = [log EXCEPT ![r] = Append(log[r], Ev("update", id, session[r].entries, TRUE))]
       /\ Finish(r, "response")
    \/ /\ log' = [log EXCEPT ![r] = Append(log[r], Ev("update", id, session[r].entries, FALSE))]
       /\ Finish(r, "response")
       /\ UNCHANGED <<store, written>>

\* Mutant: a failed update_session is tried again.
UpdateCall_Retry(r, id) ==
    \/ /\ store' = update_session(store, id, session[r].entries)
       /\ written' = [written EXCEPT ![id] =
              Some([entries |-> session[r].entries, cookie_set |-> jar[r].op = "set"])]
       /\ log' = [log EXCEPT ![r] = Append(log[r], Ev("update", id, session[r].entries, TRUE))]
       /\ Finish(r, "response")
    \/ /\ log' = [log EXCEPT ![r] = Append(log[r], Ev("update", id, session[r].entries, FALSE))]
       /\ UNCHANGED <<store, written, pc, result>>

\* storage.update_session(id, &session.entries(), ttl).await? ; Ok(resp)
UpdateCall(r, id) ==
    \/ /\ store' = update_session(store, id, session[r].entries)
       /\ written' = [written EXCEPT ![id] =
              Some([entries |-> session[r].entries, cookie_set |-> jar[r].op = "set"])]
       /\ log' = [log EXCEPT ![r] = Append(log[r], Ev("update", id, session[r].entries, TRUE))]
       /\ Finish(r, "response")
    \/ /\ log' = [log EXCEPT ![r] = Append(log[r], Ev("update", id, session[r].entries, FALSE))]
       /\ Finish(r, "persist_error")
       /\ UNCHANGED <<store, written>>

\* Mutant: a request that came with a cookie keeps that identifier.
Rotate_Reuse(r) ==
    /\ \E id \in (IF cookie[r] # NoId THEN {cookie[r]} ELSE generate_session_id) :
        /\ new_id' = [new_id EXCEPT ![r] = id]
        /\ jar' = [jar EXCEPT ![r] = set_cookie_value(jar[r], id)]
        /\ log' = [log EXCEPT ![r] =
              log[r] \o (IF cookie[r] # NoId THEN <<>> ELSE <<Ev("generate", id, EmptyEntries, TRUE)>>)
                     \o <<Ev("set_cookie", id, EmptyEntries, TRUE)>>]
    /\ pc' = [pc EXCEPT ![r] = "update"]
    /\ UNCHANGED <<store, written, served, cookie, session_id, session, result, handed,
                   source, nops, wrote, mutated>>

\* Mutant: the generator is called twice, the second identifier is used.
Rotate_Twice(r) ==
    /\ \E id \in generate_session_id, first \in generate_session_id :
        /\ new_id' = [new_id EXCEPT ![r] = id]
        /\ jar' = [jar EXCEPT ![r] = set_cookie_value(jar[r], id)]
        /\ log' = [log EXCEPT ![r] = log[r] \o <<Ev("generate", first, EmptyEntries, TRUE),
                                                 Ev("generate", id, EmptyEntries, TRUE),
                                                 Ev("set_cookie", id, EmptyEntries, TRUE)>>]
    /\ pc' = [pc EXCEPT ![r] = "update"]
    /\ UNCHANGED <<store, written, served, cookie, session_id, session, result, handed,
                   source, nops, wrote, mutated>>

\* let session_id = generate_session_id(); config.set_cookie_value(&jar, &session_id)
Rotate(r) ==
    /\ \E id \in generate_session_id :
        /\ new_id' = [new_id EXCEPT ![r] = id]
        /\ jar' = [jar EXCEPT ![r] = set_cookie_value(jar[r], id)]
        /\ log' = [log EXCEPT ![r] = log[r] \o <<Ev("generate", id, EmptyEntries, TRUE),
                                                 Ev("set_cookie", id, EmptyEntries, TRUE)>>]
    /\ pc' = [pc EXCEPT ![r] = "update"]
    /\ UNCHANGED <<store, written, served, cookie, session_id, session, result, handed,
                   source, nops, wrote, mutated>>

\* Mutant: the cookie is set again when an existing record is updated.
ChangedWithId_SetCookie(r) ==
    /\ pc[r] = "persist"
    /\ session[r].status = "Changed"
    /\ session_id[r] # NoId
    /\ jar' = [jar EXCEPT ![r] = set_cookie_value(jar[r], session_id[r])]
    /\ \/ /\ store' = update_session(store, session_id[r], session[r].entries)
          /\ written' = [written EXCEPT ![session_id[r]] =
                 Some([entries |-> session[r].entries, cookie_set |-> TRUE])]
          /\ log' = [log EXCEPT ![r] = log[r] \o
                 <<Ev("set_cookie", session_id[r], EmptyEntries, TRUE),
                   Ev("update", session_id[r], session[r].entries, TRUE)>>]
          /\ Finish(r, "response")
       \/ /\ log' = [log EXCEPT ![r] = log[r] \o
                 <<Ev("set_cookie", session_id[r], EmptyEntries, TRUE),
                   Ev("update", session_id[r], session[r].entries, FALSE)>>]
          /\ Finish(r, "persist_error")
          /\ UNCHANGED <<store, written>>
    /\ UNCHANGED <<served, cookie, session_id, session, handed, source, nops, wrote, mutated, new_id>>

\* Mutant: the update is merged into the record found in the storage.
ChangedWithId_Merge(r) ==
    /\ pc[r] = "persist"
    /\ session[r].status = "Changed"
    /\ session_id[r] # NoId
    /\ LET own == session[r].entries
           old == IF store[session_id[r]] = None THEN EmptyEntries
                  ELSE Unwrap(store[session_id[r]])
           merged == [k \in DOMAIN old \cup DOMAIN own |->
                         IF k \in DOMAIN own THEN own[k] ELSE old[k]]
       IN  \/ /\ store' = update_session(store, session_id[r], merged)
              /\ written' = [written EXCEPT ![session_id[r]] =
                     Some([entries |-> own, cookie_set |-> jar[r].op = "set"])]
              /\ log' = [log EXCEPT ![r] = Append(log[r], Ev("update", session_id[r], merged, TRUE))]
              /\ Finish(r, "response")
           \/ /\ log' = [log EXCEPT ![r] = Append(log[r], Ev("update", session_id[r], merged, FALSE))]
              /\ Finish(r, "persist_error")
              /\ UNCHANGED <<store, written>>
    /\ UNCHANGED <<served, cookie, session_id, session, jar, handed, source, nops, wrote, mutated, new_id>>

\* SessionStatus::Changed, Some(session_id)
ChangedWithId(r) ==
    /\ pc[r] = "persist"
    /\ session[r].status = "Changed"
    /\ session_id[r] # NoId
    /\ UpdateCall(r, session_id[r])
    /\ UNCHANGED <<served, cookie, session_id, session, jar, handed, source, nops, wrote, mutated, new_id>>

\* SessionStatus::Changed, None
ChangedNoId(r) ==
    /\ pc[r] = "persist"
    /\ session[r].status = "Changed"
    /\ session_id[r] = NoId
    /\ Rotate(r)

\* Mutant: the old record is left in the storage.
RenewedRemove_Skip(r) ==
    /\ pc[r] = "persist"
    /\ session[r].status = "Renewed"
    /\ session_id[r] # NoId
    /\ pc' = [pc EXCEPT ![r] = "rotate"]
    /\ UNCHANGED <<store, written, log, result>>
    /\ UNCHANGED <<served, cookie, session_id, session, jar, handed, source, nops, wrote, mutated, new_id>>

\* SessionStatus::Renewed, Some(session_id): storage.remove_session(&session_id).await?
RenewedRemove(r) ==
    /\ pc[r] = "persist"
    /\ session[r].status = "Renewed"
    /\ session_id[r] # NoId
    /\ \/ /\ store' = remove_session(store, session_id[r])
          /\ written' = [written EXCEPT ![session_id[r]] = None]
          /\ log' = [log EXCEPT ![r] = Append(log[r], Ev("remove", session_id[r], EmptyEntries, TRUE))]
          /\ pc' = [pc EXCEPT ![r] = "rotate"]
          /\ UNCHANGED result
       \/ /\ log' = [log EXCEPT ![r] = Append(log[r], Ev("remove", session_id[r], EmptyEntries, FALSE))]
          /\ Finish(r, "persist_error")
          /\ UNCHANGED <<store, written>>
    /\ UNCHANGED <<served, cookie, session_id, session, jar, handed, source, nops, wrote, mutated, new_id>>

\* SessionStatus::Renewed: the new identifier, after the old one (if any) is removed
RenewedRotate(r) ==
    /\ \/ pc[r] = "rotate"
       \/ /\ pc[r] = "persist"
          /\ session[r].status = "Renewed"
          /\ session_id[r] = NoId
    /\ Rotate(r)

\* Mutant: a failed update_session of the new identifier is rolled back: the
\* old record is stored again and the cookie is taken out of the jar.
UpdateNew_Rollback(r) ==
    /\ pc[r] = "update"
    /\ \/ /\ store' = update_session(store, new_id[r], session[r].entries)
          /\ written' = [written EXCEPT ![new_id[r]] =
                 Some([entries |-> session[r].entries, cookie_set |-> jar[r].op = "set"])]
          /\ log' = [log EXCEPT ![r] = Append(log[r], Ev("update", new_id[r], session[r].entries, TRUE))]
          /\ Finish(r, "response")
          /\ UNCHANGED jar
       \/ /\ log' = [log EXCEPT ![r] = Append(log[r], Ev("update", new_id[r], session[r].entries, FALSE))]
          /\ Finish(r, "persist_error")
          /\ jar' = [jar EXCEPT ![r] = JarUntouched]
          /\ IF session_id[r] # NoId
             THEN store' = update_session(store, session_id[r], handed[r])
             ELSE store' = store
          /\ UNCHANGED written
    /\ UNCHANGED <<served, cookie, session_id, session, handed, source, nops, wrote, mutated, new_id>>

\* Mutant: the record is written under the identifier the request came with,
\* the cookie carries the new one.
UpdateNew_OldKey(r) ==
    /\ pc[r] = "update"
    /\ UpdateCall(r, IF session_id[r] # NoId THEN session_id[r] ELSE new_id[r])
    /\ UNCHANGED <<served, cookie, session_id, session, jar, handed, source, nops, wrote, mutated, new_id>>

\* update_session under the identifier just generated
UpdateNew(r) ==
    /\ pc[r] = "update"
    /\ UpdateCall(r, new_id[r])
    /\ UNCHANGED <<served, cookie, session_id, session, jar, handed, source, nops, wrote, mutated, new_id>>

\* Mutant: the record is removed, the cookie is left in the jar.
PurgedRemove_KeepCookie(r) ==
    /\ pc[r] = "persist"
    /\ session[r].status = "Purged"
    /\ session_id[r] # NoId
    /\ \/ /\ store' = remove_session(store, session_id[r])
          /\ written' = [written EXCEPT ![session_id[r]] = None]
          /\ log' = [log EXCEPT ![r] = Append(log[r], Ev("remove", session_id[r], EmptyEntries, TRUE))]
          /\ Finish(r, "response")
       \/ /\ log' = [log EXCEPT ![r] = Append(log[r], Ev("remove", session_id[r], EmptyEntries, FALSE))]
          /\ Finish(r, "persist_error")
          /\ UNCHANGED <<store, written>>
    /\ UNCHANGED <<served, cookie, session_id, session, jar, handed, source, nops, wrote, mutated, new_id>>

\* SessionStatus::Purged, Some(session_id)
PurgedRemove(r) ==
    /\ pc[r] = "persist"
    /\ session[r].status = "Purged"
    /\ session_id[r] # NoId
    /\ \/ /\ store' = remove_session(store, session_id[r])
          /\ written' = [written EXCEPT ![session_id[r]] = None]
          /\ jar' = [jar EXCEPT ![r] = remove_cookie(jar[r])]
          /\ log' = [log EXCEPT ![r] = log[r] \o <<Ev("remove", session_id[r], EmptyEntries, TRUE),
                                                   Ev("remove_cookie", NoId, EmptyEntries, TRUE)>>]
          /\ Finish(r, "response")
       \/ /\ log' = [log EXCEPT ![r] = Append(log[r], Ev("remove", session_id[r], EmptyEntries, FALSE))]
          /\ Finish(r, "persist_error")
          /\ UNCHANGED <<store, written, jar>>
    /\ UNCHANGED <<served, cookie, session_id, session, handed, source, nops, wrote, mutated, new_id>>

\* Mutant: the cookie is removed whether or not an identifier was resolved.
PurgedNoId_RemoveCookie(r) ==
    /\ pc[r] = "persist"
    /\ session[r].status = "Purged"
    /\ session_id[r] = NoId
    /\ jar' = [jar EXCEPT ![r] = remove_cookie(jar[r])]
    /\ log' = [log EXCEPT ![r] = Append(log[r], Ev("remove_cookie", NoId, EmptyEntries, TRUE))]
    /\ Finish(r, "response")
    /\ UNCHANGED <<store, written, served, cookie, session_id, session, handed,
                   source, nops, wrote, mutated, new_id>>

\* SessionStatus::Purged, None: nothing to do
PurgedNoId(r) ==
    /\ pc[r] = "persist"
    /\ session[r].status = "Purged"
    /\ session_id[r] = NoId
    /\ Finish(r, "response")
    /\ UNCHANGED <<store, written, served, cookie, session_id, session, jar, log, handed,
                   source, nops, wrote, mutated, new_id>>

\* Mutant: an untouched session is persisted all the same.
Unchanged_Persist(r) ==
    /\ pc[r] = "persist"
    /\ session[r].status = "Unchanged"
    /\ Rotate(r)

\* Mutant: an untouched session that was loaded is written back (its TTL is renewed).
Unchanged_Touch(r) ==
    /\ pc[r] = "persist"
    /\ session[r].status = "Unchanged"
    /\ IF session_id[r] # NoId
       THEN UpdateCall(r, session_id[r])
       ELSE Finish(r, "response") /\ UNCHANGED <<store, written, log>>
    /\ UNCHANGED <<served, cookie, session_id, session, jar, handed,
                   source, nops, wrote, mutated, new_id>>

\* SessionStatus::Unchanged => {}
Unchanged(r) ==
    /\ pc[r] = "persist"
    /\ session[r].status = "Unchanged"
    /\ Finish(r, "response")
    /\ UNCHANGED <<store, written, served, cookie, session_id, session, jar, log, handed,
                   source, nops, wrote, mutated, new_id>>

\* ------------------------------------------------------------- the environment
\* What reaches a request from outside it: another request or client writes a
\* record, or a record is removed or runs out of its TTL.
EnvUpdate(id) ==
    /\ \E e \in EnvEntries :
        /\ store[id] # Some(e)
        /\ store' = update_session(store, id, e)
    /\ written' = [written EXCEPT ![id] = None]
    /\ UNCHANGED <<served, pc, cookie, session_id, session, jar, result, log, handed,
                   source, nops, wrote, mutated, new_id>>

EnvRemove(id) ==
    /\ store[id] # None
    /\ store' = remove_session(store, id)
    /\ written' = [written EXCEPT ![id] = None]
    /\ UNCHANGED <<served, pc, cookie, session_id, session, jar, result, log, handed,
                   source, nops, wrote, mutated, new_id>>

Step(r) ==
    \/ Arrive(r)
    \/ LoadSession(r)
    \/ HandlerSet(r)
    \/ HandlerRemove(r)
    \/ HandlerRenew(r)
    \/ HandlerPurge(r)
    \/ HandlerReturn(r)
    \/ ChangedWithId(r)
    \/ ChangedNoId(r)
    \/ RenewedRemove(r)
    \/ RenewedRotate(r)
    \/ UpdateNew(r)
    \/ PurgedRemove(r)
    \/ PurgedNoId(r)
    \/ Unchanged(r)

Next ==
    \/ \E r \in Solo : Step(r)
    \/ \E id \in Ids : EnvUpdate(id)
    \/ \E id \in Ids : EnvRemove(id)

Spec == Init /\ [][Next]_vars

\* ------------------------------------------------------------- vocabulary
Done(r) == pc[r] = "done"

\* The status the session is left with.
Status(r) == session[r].status

\* The identifier load_session resolved (NoId: no cookie, or no record for it).
Prior(r) == session_id[r]

\* The inner endpoint returned Ok: `call` went on to `match session.status()`.
HandlerOk(r) == Done(r) /\ result[r] \in {"response", "persist_error"}

Failed(r, op) == {i \in Pos(log[r], op) : ~log[r][i].ok}

\* load_session was called and returned Ok(None) / Ok(Some(entries)).
Missed(r) == Pos(log[r], "miss") # {}

Hit(r) == Pos(log[r], "load") # {} /\ Failed(r, "load") = {} /\ ~Missed(r)

\* ------------------------------------------------------------- C1
\* C1 as stated, read for the requests whose handler returned Ok: in every
\* request where the handler writes an entry there is exactly one
\* update_session call and it carries the session's current entry mapping;
\* without a prior identifier exactly one identifier is generated and exactly
\* one session Set-Cookie results.
C1_Original ==
    \A r \in Reqs :
        (HandlerOk(r) /\ wrote[r]) =>
            /\ Count(log[r], "update") = 1
            /\ \A i \in Pos(log[r], "update") : log[r][i].entries = session[r].entries
            /\ Prior(r) = NoId =>
                  /\ Count(log[r], "generate") = 1
                  /\ Count(log[r], "set_cookie") = 1
                  /\ SetCookieCount(jar[r]) = 1

\* C1 amended: the same, for the requests whose handler wrote an entry, returned
\* Ok and left the status Changed or Renewed, and in which no remove_session
\* failed (an update_session that fails still is the one call).
C1_Amended ==
    \A r \in Reqs :
        (/\ HandlerOk(r)
         /\ wrote[r]
         /\ Status(r) \in {"Changed", "Renewed"}
         /\ Failed(r, "remove") = {}) =>
            /\ Count(log[r], "update") = 1
            /\ \A i \in Pos(log[r], "update") : log[r][i].entries = session[r].entries
            /\ Prior(r) = NoId =>
                  /\ Count(log[r], "generate") = 1
                  /\ Count(log[r], "set_cookie") = 1
                  /\ Count(log[r], "remove_cookie") = 0
                  /\ SetCookieCount(jar[r]) = 1

\* A request without prior identifier whose handler added an entry to the ones
\* it found, persisted with both.
C1_Witness ==
    \E r \in Reqs :
        /\ result[r] = "response"
        /\ wrote[r]
        /\ Status(r) = "Changed"
        /\ Prior(r) # NoId
        /\ handed[r] # EmptyEntries
        /\ DOMAIN session[r].entries = Keys
        /\ Count(log[r], "update") = 1

\* ------------------------------------------------------------- C2
\* C2 as stated, read for the requests whose handler returned Ok: whenever the
\* status is left Renewed, the prior identifier (if any) is removed before the
\* update, no remove_session is made without one, and one identifier is
\* generated, set in the jar and used for the one update_session.
RenewedProtocol(r) ==
    /\ Prior(r) # NoId =>
          /\ Count(log[r], "remove") = 1
          /\ \A i \in Pos(log[r], "remove") :
                /\ log[r][i].id = Prior(r)
                /\ log[r][i].ok
                /\ \A j \in Pos(log[r], "update") \cup Pos(log[r], "generate") : i < j
    /\ Prior(r) = NoId => Count(log[r], "remove") = 0
    /\ Count(log[r], "generate") = 1
    /\ Count(log[r], "set_cookie") = 1
    /\ Count(log[r], "update") = 1
    /\ jar[r] = [op |-> "set", id |-> new_id[r]]
    /\ \A i \in Pos(log[r], "generate") : log[r][i].id = new_id[r]
    /\ \A i \in Pos(log[r], "set_cookie") :
          /\ log[r][i].id = new_id[r]
          /\ \A j \in Pos(log[r], "update") : i < j
    /\ \A i \in Pos(log[r], "update") :
          /\ log[r][i].id = new_id[r]
          /\ log[r][i].entries = session[r].entries

C2_Original ==
    \A r \in Reqs : (HandlerOk(r) /\ Status(r) = "Renewed") => RenewedProtocol(r)

\* C2 amended: the same, for the requests whose handler returned Ok with the
\* status Renewed and whose remove_session of the prior identifier did not fail.
C2_Amended ==
    \A r \in Reqs :
        (HandlerOk(r) /\ Status(r) = "Renewed" /\ Failed(r, "remove") = {})
            => RenewedProtocol(r)

\* A Renewed request with a prior identifier and untouched entries, completed.
C2_Witness ==
    \E r \in Reqs :
        /\ result[r] = "response"
        /\ Status(r) = "Renewed"
        /\ Prior(r) # NoId
        /\ session[r].entries = handed[r]
        /\ ~wrote[r]

\* ------------------------------------------------------------- C3
\* C3 as stated says at least this: a completed renewal carries an identifier
\* different from the one the request arrived with.
C3_Original ==
    \A r \in Reqs :
        (result[r] = "response" /\ Status(r) = "Renewed") =>
            /\ jar[r].op = "set"
            /\ jar[r].id # cookie[r]

\* C3 amended: a renewal that reaches the rotation always issues what a call of
\* generate_session_id made in that request returned, never the identifier
\* carried over, whether or not the entries changed; it differs from the prior
\* identifiers unless the random draw collides with one.
C3_Amended ==
    \A r \in Reqs :
        (HandlerOk(r) /\ Status(r) = "Renewed" /\ Failed(r, "remove") = {}) =>
            \E g \in Pos(log[r], "generate") :
                /\ \A i \in Pos(log[r], "return") : i < g
                /\ \A i \in Pos(log[r], "set_cookie") \cup Pos(log[r], "update") :
                      g < i /\ log[r][i].id = log[r][g].id
                /\ jar[r].op = "set"
                /\ jar[r].id = log[r][g].id

\* A completed renewal with a cookie, unchanged entries and a fresh draw.
C3_Witness ==
    \E r \in Reqs :
        /\ result[r] = "response"
        /\ Status(r) = "Renewed"
        /\ cookie[r] # NoId
        /\ session[r].entries = handed[r]
        /\ jar[r].id # cookie[r]

\* ------------------------------------------------------------- C4
PurgeCalls(r) ==
    /\ Count(log[r], "remove") = 1
    /\ \A i \in Pos(log[r], "remove") : log[r][i].id = cookie[r]
    /\ Count(log[r], "update") = 0
    /\ Count(log[r], "generate") = 0
    /\ Count(log[r], "set_cookie") = 0

\* C4 as stated, read for the requests whose handler returned Ok: a Purged
\* request with a resolved identifier makes one remove_session with it, no
\* update_session, generates nothing, and the cookie is removed from the jar.
C4_Original ==
    \A r \in Reqs :
        (HandlerOk(r) /\ Status(r) = "Purged" /\ Hit(r)) =>
            /\ PurgeCalls(r)
            /\ jar[r].op = "removed"

\* C4 amended: the same calls; the cookie is removed from the jar when that
\* remove_session succeeds, and when it fails the request ends in the error
\* with the jar as it was.
C4_Amended ==
    \A r \in Reqs :
        (HandlerOk(r) /\ Status(r) = "Purged" /\ Hit(r)) =>
            /\ PurgeCalls(r)
            /\ Failed(r, "remove") = {} =>
                  /\ jar[r] = remove_cookie(JarUntouched)
                  /\ Count(log[r], "remove_cookie") = 1
                  /\ \A i \in Pos(log[r], "remove"), j \in Pos(log[r], "remove_cookie") : i < j
                  /\ result[r] = "response"
            /\ Failed(r, "remove") # {} =>
                  /\ jar[r] = JarUntouched
                  /\ Count(log[r], "remove_cookie") = 0
                  /\ result[r] = "persist_error"

\* A purge of a session that was found, completed.
C4_Witness ==
    \E r \in Reqs :
        /\ result[r] = "response"
        /\ Status(r) = "Purged"
        /\ Hit(r)
        /\ jar[r].op = "removed"
        /\ store[cookie[r]] = None

\* ------------------------------------------------------------- C5
\* C5 as stated: a Purged request without prior identifier makes no storage
\* call at all and produces no cookie header.
C5_Original ==
    \A r \in Reqs :
        (HandlerOk(r) /\ Status(r) = "Purged" /\ ~Hit(r)) =>
            /\ Count(log[r], "load") = 0
            /\ Count(log[r], "update") = 0
            /\ Count(log[r], "remove") = 0
            /\ SetCookieCount(jar[r]) = 0

\* C5 amended: such a request makes no update_session and no remove_session,
\* generates no identifier and does not write the jar; its only storage call is
\* the load_session of a cookie whose record is missing, when it came with one.
C5_Amended ==
    \A r \in Reqs :
        (Done(r) /\ Status(r) = "Purged" /\ ~Hit(r)) =>
            /\ Count(log[r], "load") = (IF cookie[r] = NoId THEN 0 ELSE 1)
            /\ Count(log[r], "update") = 0
            /\ Count(log[r], "remove") = 0
            /\ Count(log[r], "generate") = 0
            /\ Count(log[r], "set_cookie") = 0
            /\ Count(log[r], "remove_cookie") = 0
            /\ jar[r] = JarUntouched
            /\ SetCookieCount(jar[r]) = 0

\* A purge in a request that came with a cookie of a missing record.
C5_Witness ==
    \E r \in Reqs :
        /\ result[r] = "response"
        /\ Status(r) = "Purged"
        /\ Missed(r)
        /\ cookie[r] # NoId

\* ------------------------------------------------------------- C6
\* C6: a request without session cookie whose handler calls no mutating session
\* operation keeps the status Unchanged, makes no storage call (load, update,
\* remove) and leaves the jar alone (no session Set-Cookie).
C6_NoCookieNoMutation ==
    \A r \in Reqs :
        (pc[r] # "idle" /\ cookie[r] = NoId /\ ~mutated[r]) =>
            /\ Status(r) = "Unchanged"
            /\ Count(log[r], "load") = 0
            /\ Count(log[r], "update") = 0
            /\ Count(log[r], "remove") = 0
            /\ Count(log[r], "generate") = 0
            /\ jar[r] = JarUntouched
            /\ SetCookieCount(jar[r]) = 0

C6_Witness ==
    \E r \in Reqs :
        /\ result[r] = "response"
        /\ cookie[r] = NoId
        /\ ~mutated[r]

\* ------------------------------------------------------------- C7
\* C7: when load_session finds the record that the last successful
\* update_session of a request wrote (not removed, expired or overwritten
\* since), the Session handed to the handler holds exactly the entries of that
\* request's session; in particular for the cookie that request emitted.
C7_RoundTrip ==
    \A r \in Reqs :
        source[r] # None => handed[r] = Unwrap(source[r]).entries

\* A request that came with the cookie an earlier request set, and was handed
\* that request's (non-empty) entries.
C7_Witness ==
    \E r \in Reqs :
        /\ source[r] # None
        /\ Unwrap(source[r]).cookie_set
        /\ pc[r] = "handler"
        /\ DOMAIN handed[r] = Keys

\* ------------------------------------------------------------- C8
StaleStart(r) == Missed(r) => (Prior(r) = NoId /\ handed[r] = EmptyEntries)

StaleChanged(r) ==
    /\ Count(log[r], "generate") = 1
    /\ Count(log[r], "set_cookie") = 1
    /\ Count(log[r], "update") = 1
    /\ jar[r] = [op |-> "set", id |-> new_id[r]]
    /\ \A i \in Pos(log[r], "generate") \cup Pos(log[r], "set_cookie") : log[r][i].id = new_id[r]
    /\ \A i \in Pos(log[r], "update") :
          /\ log[r][i].id = new_id[r]
          /\ log[r][i].entries = session[r].entries

\* C8 as stated, read for the requests whose handler returned Ok: after a miss
\* the session starts empty without identifier; a Changed session gets one new
\* identifier X, one update_session(X, entries), the cookie X, and no
\* update_session or remove_session is called with the stale identifier.
C8_Original ==
    \A r \in Reqs :
        /\ StaleStart(r)
        /\ (HandlerOk(r) /\ Missed(r) /\ Status(r) = "Changed") =>
              /\ StaleChanged(r)
              /\ \A i \in Pos(log[r], "update") \cup Pos(log[r], "remove") :
                    log[r][i].id # cookie[r]

\* C8 amended: the same, except that the only key of an update_session is X and
\* no remove_session is made: the stale identifier is passed to the storage
\* only if the random X happens to equal it.
C8_Amended ==
    \A r \in Reqs :
        /\ StaleStart(r)
        /\ (HandlerOk(r) /\ Missed(r) /\ Status(r) = "Changed") =>
              /\ StaleChanged(r)
              /\ Count(log[r], "remove") = 0
              /\ \A i \in Pos(log[r], "update"), g \in Pos(log[r], "generate") :
                    g < i /\ log[r][i].id = log[r][g].id

\* The scenario of the specification: cookie abc without record, user=42, X.
C8_Witness ==
    \E r \in Reqs :
        /\ result[r] = "response"
        /\ Missed(r)
        /\ Status(r) = "Changed"
        /\ session[r].entries = [k \in {"user"} |-> 42]
        /\ new_id[r] # cookie[r]
        /\ store[new_id[r]] = Some(session[r].entries)

\* ------------------------------------------------------------- C9
\* C9: when load_session fails the request ends in that error, the handler is
\* never invoked and nothing is persisted, generated or written to the jar.
C9_LoadError ==
    \A r \in Reqs :
        Failed(r, "load") # {} =>
            /\ Done(r)
            /\ result[r] = "load_error"
            /\ Count(log[r], "call") = 0
            /\ ~mutated[r]
            /\ Count(log[r], "update") = 0
            /\ Count(log[r], "remove") = 0
            /\ Count(log[r], "generate") = 0
            /\ Count(log[r], "set_cookie") = 0
            /\ Count(log[r], "remove_cookie") = 0
            /\ jar[r] = JarUntouched

C9_Witness ==
    \E r \in Reqs : result[r] = "load_error" /\ Failed(r, "load") # {}

\* ------------------------------------------------------------- C10
\* C10: a request in which update_session or remove_session failed ends in the
\* error; when the response is returned, the handler had returned Ok and every
\* persistence call the final status asks for was made and succeeded.
C10_PersistError ==
    \A r \in Reqs :
        /\ (Failed(r, "update") \cup Failed(r, "remove") # {}) =>
              (Done(r) /\ result[r] = "persist_error")
        /\ result[r] = "response" =>
              /\ Done(r)
              /\ \A i \in DOMAIN log[r] : log[r][i].ok
              /\ Count(log[r], "return") = 1
              /\ Status(r) \in {"Changed", "Renewed"} => Count(log[r], "update") = 1
              /\ (Status(r) \in {"Renewed", "Purged"} /\ Hit(r)) => Count(log[r], "remove") = 1

\* The handler returned Ok, update_session failed, the request ended in error.
C10_Witness ==
    \E r \in Reqs :
        /\ result[r] = "persist_error"
        /\ Failed(r, "update") # {}
        /\ Count(log[r], "return") = 1

\* ------------------------------------------------------------- C11
\* C11: when the handler fails, whatever status and entries it left on the
\* session, the request ends in the handler's error and there is no
\* update_session, no remove_session, no generated identifier and no write to
\* the cookie jar.
C11_HandlerError ==
    \A r \in Reqs :
        Failed(r, "return") # {} =>
            /\ Done(r)
            /\ result[r] = "handler_error"
            /\ Count(log[r], "update") = 0
            /\ Count(log[r], "remove") = 0
            /\ Count(log[r], "generate") = 0
            /\ Count(log[r], "set_cookie") = 0
            /\ Count(log[r], "remove_cookie") = 0
            /\ jar[r] = JarUntouched
            /\ new_id[r] = NoId

\* The handler failed after it changed the entries of a session that was loaded.
C11_Witness ==
    \E r \in Reqs :
        /\ result[r] = "handler_error"
        /\ Failed(r, "return") # {}
        /\ Status(r) # "Unchanged"
        /\ Prior(r) # NoId
        /\ session[r].entries # handed[r]

\* ------------------------------------------------------------- C12
\* C12: within one request, load_session (made whenever the cookie carries an
\* identifier) has returned before the handler is invoked, the handler is
\* invoked before it returns, and every update_session, remove_session and
\* cookie jar write comes after the handler has returned.
Persistence == {"update", "remove", "generate", "set_cookie", "remove_cookie"}

C12_HappensBefore ==
    \A r \in Reqs :
        /\ \A i \in Pos(log[r], "call") :
              /\ cookie[r] # NoId => Pos(log[r], "load") # {}
              /\ \A j \in Pos(log[r], "load") : j < i /\ log[r][j].ok
        /\ \A i \in Pos(log[r], "return") : \E j \in Pos(log[r], "call") : j < i
        /\ \A i \in DOMAIN log[r] :
              log[r][i].op \in Persistence =>
                  \E j \in Pos(log[r], "return") : j < i /\ log[r][j].ok
        /\ pc[r] \in {"load", "handler"} =>
              /\ jar[r] = JarUntouched
              /\ \A i \in DOMAIN log[r] : log[r][i].op \notin Persistence

\* A request that loaded a record, ran the handler and then removed the old
\* record, set the cookie and updated the new record.
C12_Witness ==
    \E r \in Reqs :
        /\ result[r] = "response"
        /\ Pos(log[r], "load") # {}
        /\ Pos(log[r], "remove") # {}
        /\ Pos(log[r], "set_cookie") # {}
        /\ Pos(log[r], "update") # {}

\* ------------------------------------------------------------- C13
\* C13: no storage call is retried: a request makes at most one load_session,
\* at most one remove_session and at most one update_session, and the first
\* storage call that returns an error is the last storage call of the request.
StorageCalls == {"load", "remove", "update"}

C13_NoRetry ==
    \A r \in Reqs :
        /\ \A op \in StorageCalls : Count(log[r], op) <= 1
        /\ \A i \in DOMAIN log[r] :
              (log[r][i].op \in StorageCalls /\ ~log[r][i].ok) =>
                  /\ \A j \in DOMAIN log[r] : j > i => log[r][j].op \notin StorageCalls
                  /\ Done(r)
                  /\ result[r] \in {"load_error", "persist_error"}

\* remove_session failed in a request that ended Renewed: the update_session
\* of the new identifier, which would have followed, was not made.
C13_Witness ==
    \E r \in Reqs :
        /\ Done(r)
        /\ Status(r) = "Renewed"
        /\ Failed(r, "remove") # {}
        /\ Count(log[r], "load") = 1
        /\ Count(log[r], "update") = 0

\* ------------------------------------------------------------- C14
\* Every identifier the request generated was written to the cookie jar and is
\* the key of the request's one update_session call.
GeneratedIsIssued(r) ==
    \A i \in Pos(log[r], "generate") :
        /\ jar[r] = set_cookie_value(JarUntouched, log[r][i].id)
        /\ \E j \in Pos(log[r], "set_cookie") : j > i /\ log[r][j].id = log[r][i].id
        /\ Count(log[r], "update") = 1
        /\ \A j \in Pos(log[r], "update") : j > i /\ log[r][j].id = log[r][i].id

\* C14 as stated, read for the requests whose handler returned Ok: exactly one
\* identifier is generated in a request that ends Changed with no prior
\* identifier and in a request that ends Renewed, none in a request that ends
\* Unchanged, Purged or Changed with a prior identifier; every generated
\* identifier is written to the jar and keys the request's update_session.
C14_Original ==
    \A r \in Reqs :
        HandlerOk(r) =>
            /\ Count(log[r], "generate") =
                  (IF \/ Status(r) = "Changed" /\ Prior(r) = NoId
                      \/ Status(r) = "Renewed"
                   THEN 1 ELSE 0)
            /\ GeneratedIsIssued(r)

\* C14, amended: a request that ends Renewed with a prior identifier generates
\* an identifier only when remove_session of the prior identifier succeeded; a
\* request whose handler or load failed generates none.
C14_Amended ==
    \A r \in Reqs :
        Done(r) =>
            /\ Count(log[r], "generate") =
                  (IF /\ HandlerOk(r)
                      /\ \/ Status(r) = "Changed" /\ Prior(r) = NoId
                         \/ Status(r) = "Renewed" /\ Failed(r, "remove") = {}
                   THEN 1 ELSE 0)
            /\ GeneratedIsIssued(r)

\* A request that ended Renewed with a prior identifier generated one
\* identifier; so did a request that ended Changed without one.
C14_Witness ==
    \E r \in Reqs :
        /\ result[r] = "response"
        /\ Status(r) = "Renewed"
        /\ Prior(r) # NoId
        /\ Count(log[r], "generate") = 1
        /\ Count(log[r], "remove") = 1

\* ------------------------------------------------------------- C15
\* C15: in a request that ends Changed with a prior identifier resolved (the
\* handler returned Ok), update_session is called exactly once, under that
\* identifier and with the session's entries; no identifier is generated, no
\* remove_session is called and the cookie jar is not written.
C15_ChangedWithId ==
    \A r \in Reqs :
        (HandlerOk(r) /\ Status(r) = "Changed" /\ Prior(r) # NoId) =>
            /\ Count(log[r], "update") = 1
            /\ \A i \in Pos(log[r], "update") :
                  /\ log[r][i].id = Prior(r)
                  /\ log[r][i].id = cookie[r]
                  /\ log[r][i].entries = session[r].entries
            /\ Count(log[r], "generate") = 0
            /\ Count(log[r], "remove") = 0
            /\ Count(log[r], "set_cookie") = 0
            /\ Count(log[r], "remove_cookie") = 0
            /\ jar[r] = JarUntouched
            /\ new_id[r] = NoId

\* A loaded session was changed and written back under its identifier.
C15_Witness ==
    \E r \in Reqs :
        /\ result[r] = "response"
        /\ Status(r) = "Changed"
        /\ Prior(r) # NoId
        /\ session[r].entries # handed[r]
        /\ store[Prior(r)] = Some(session[r].entries)

\* ------------------------------------------------------------- C16
\* C16: when the handler has returned and the status is Unchanged, with or
\* without an identifier resolved, the step that ends the request returns the
\* response and makes no call at all: no update_session, no remove_session,
\* no generated identifier, no cookie jar write; the storage, and with it
\* every record and its TTL, is what it was before the step.
C16_UnchangedFrame ==
    [][\A r \in Reqs :
          (pc[r] = "persist" /\ Status(r) = "Unchanged" /\ pc'[r] # pc[r]) =>
              /\ pc'[r] = "done"
              /\ result'[r] = "response"
              /\ store' = store
              /\ jar'[r] = JarUntouched
              /\ new_id'[r] = NoId
              /\ log'[r] = log[r]
              /\ \A i \in DOMAIN log[r] : log[r][i].op \notin Persistence]_vars

\* A request that loaded a record and left the session untouched returned its
\* response, the record still in the storage.
C16_Witness ==
    \E r \in Reqs :
        /\ result[r] = "response"
        /\ Status(r) = "Unchanged"
        /\ Prior(r) # NoId
        /\ store[Prior(r)] = Some(session[r].entries)

\* ------------------------------------------------------------- C19
\* The step in which update_session(new identifier) fails, in a request that
\* ends Renewed with a prior identifier (its remove_session has succeeded).
RenewedUpdateFails(r) ==
    /\ pc[r] = "update"
    /\ Status(r) = "Renewed"
    /\ Prior(r) # NoId
    /\ pc'[r] = "done"
    /\ result'[r] = "persist_error"

\* C19 as stated: when remove_session(old) succeeded and update_session(new)
\* fails, the request ends in an error, the storage holds no record under the
\* old identifier and none under the new one, and the jar was set to the new
\* identifier before the failed update.
C19_Original ==
    [][\A r \in Reqs :
          RenewedUpdateFails(r) =>
              /\ store'[Prior(r)] = None
              /\ store'[new_id[r]] = None
              /\ jar'[r] = set_cookie_value(JarUntouched, new_id[r])]_vars

\* C19, amended: the request's remove_session leaves no record under the old
\* identifier; the failed update_session writes nothing and restores nothing
\* (the storage is what it was before the call); the request ends in the
\* error with the jar already set to the new identifier. A record under the
\* new or the old identifier is then one this request did not write.
C19_Amended ==
    [][\A r \in Reqs :
          /\ (pc[r] = "persist" /\ Status(r) = "Renewed" /\ pc'[r] = "rotate") =>
                /\ store'[Prior(r)] = None
                /\ jar'[r] = JarUntouched
          /\ RenewedUpdateFails(r) =>
                /\ store' = store
                /\ jar[r] = set_cookie_value(JarUntouched, new_id[r])
                /\ jar'[r] = jar[r]
                /\ Count(log[r], "update") = 0
                /\ \E i \in Pos(log[r], "remove"), j \in Pos(log[r], "set_cookie") :
                      /\ i < j
                      /\ log[r][i].ok
                      /\ log[r][i].id = Prior(r)
                      /\ log[r][j].id = new_id[r]]_vars

\* The rotation stopped half way: the old record removed, the update of the
\* new identifier failed, the cookie set, and no record under either.
C19_Witness ==
    \E r \in Reqs :
        /\ result[r] = "persist_error"
        /\ Status(r) = "Renewed"
        /\ Prior(r) # NoId
        /\ Failed(r, "update") # {}
        /\ Count(log[r], "remove") = 1
        /\ new_id[r] # Prior(r)
        /\ store[Prior(r)] = None
        /\ store[new_id[r]] = None
        /\ jar[r] = set_cookie_value(JarUntouched, new_id[r])

\* ------------------------------------------------------------- C20
\* C20: every identifier a request passes to update_session or remove_session
\* is the cookie identifier for which its load_session returned a record, or
\* an identifier generated earlier in the same request; and a request that
\* returns its response with the session cookie set to X has made a
\* successful update_session(X, final entries).
C20_KeysAndCookie ==
    \A r \in Reqs :
        /\ \A i \in Pos(log[r], "update") \cup Pos(log[r], "remove") :
              \/ log[r][i].id = cookie[r] /\ Hit(r)
              \/ \E j \in Pos(log[r], "generate") : j < i /\ log[r][j].id = log[r][i].id
        /\ (result[r] = "response" /\ jar[r].op = "set") =>
              \E i \in Pos(log[r], "update") :
                  /\ log[r][i].ok
                  /\ log[r][i].id = jar[r].id
                  /\ log[r][i].entries = session[r].entries

\* A rotation that went through: the cookie identifier was removed, a new
\* identifier other than it was generated, set in the jar and updated.
C20_Witness ==
    \E r \in Reqs :
        /\ result[r] = "response"
        /\ jar[r].op = "set"
        /\ Hit(r)
        /\ jar[r].id # cookie[r]
        /\ \E i \in Pos(log[r], "remove") : log[r][i].id = cookie[r]
        /\ \E i \in Pos(log[r], "update") : log[r][i].id = jar[r].id

\* ------------------------------------------------------------- concurrent requests
\* Two tasks run `call` at the same time on one storage. Each `.await` of
\* `call` is a point where the other task may run: the steps interleave.
\* A task serves one request here: two requests in all, both in flight, and
\* both bear the same identifier in their cookie.
ConcStep(r) ==
    /\ pc[r] # "done"
    /\ Step(r)
    /\ pc[r] = "idle" =>
          /\ cookie'[r] # NoId
          /\ \A q \in Reqs \ {r} : pc[q] # "idle" => cookie'[r] = cookie[q]

ConcNext == \E r \in Reqs : ConcStep(r)

SpecConc == Init /\ [][ConcNext]_vars

\* ------------------------------------------------------------- C17
\* Two requests that bear the same identifier, both with a record loaded for
\* it and both Changed.
SameSessionChanged(r, q) ==
    /\ r # q
    /\ cookie[r] # NoId
    /\ cookie[r] = cookie[q]
    /\ Hit(r) /\ Hit(q)
    /\ Status(r) = "Changed" /\ Status(q) = "Changed"

\* C17: of two requests with the same valid identifier that both end Changed,
\* the one whose update_session runs last is held back by no lock and no
\* version check: each calls update_session once, under the shared identifier
\* and with its own entries, and the record stored after both is the mapping
\* of the later one, whatever the earlier one wrote.
C17_LastWriterWins ==
    [][\A r, q \in Reqs :
          (/\ SameSessionChanged(r, q)
           /\ result[q] = "response"
           /\ pc[r] = "persist"
           /\ pc'[r] = "done"
           /\ result'[r] = "response") =>
              /\ store'[cookie[r]] = Some(session[r].entries)
              /\ log'[r] = Append(log[r], Ev("update", cookie[r], session[r].entries, TRUE))
              /\ Count(log[r], "update") = 0
              /\ Count(log[q], "update") = 1
              /\ \A i \in Pos(log[q], "update") :
                    /\ log[q][i].id = cookie[r]
                    /\ log[q][i].entries = session[q].entries
              /\ \A k \in DOMAIN session[q].entries \ DOMAIN session[r].entries :
                    k \notin DOMAIN Unwrap(store'[cookie[r]])]_vars

\* Both requests returned their response; an entry one of them wrote, which
\* the other never saw, is not in the stored record.
C17_Witness ==
    \E r, q \in Reqs :
        /\ SameSessionChanged(r, q)
        /\ result[r] = "response"
        /\ result[q] = "response"
        /\ store[cookie[r]] = Some(session[r].entries)
        /\ \E k \in DOMAIN session[q].entries :
              /\ k \notin DOMAIN handed[q]
              /\ k \notin DOMAIN handed[r]
              /\ k \notin DOMAIN Unwrap(store[cookie[r]])

\* ------------------------------------------------------------- C18
\* Request r arrived with identifier I, found its record, purged or renewed
\* the session and returned its response.
Terminated(r) ==
    /\ result[r] = "response"
    /\ Status(r) \in {"Purged", "Renewed"}
    /\ Hit(r)

\* C18 as stated, read with no generated identifier equal to I: once a
\* request that purged or renewed the session with identifier I has returned
\* its response, the storage holds no record under I, whatever the other
\* requests that arrived with I do before or after.
C18_Original ==
    \A r \in Reqs :
        (Terminated(r) /\ \A q \in Reqs : new_id[q] # cookie[r]) =>
            store[cookie[r]] = None

\* The session was purged and the request returned; the other request, which
\* had loaded the record before, wrote its entries back under the identifier.
C18_Witness ==
    \E r, q \in Reqs :
        /\ Terminated(r)
        /\ Status(r) = "Purged"
        /\ jar[r] = remove_cookie(JarUntouched)
        /\ cookie[q] = cookie[r]
        /\ Hit(q)
        /\ result[q] = "response"
        /\ Status(q) = "Changed"
        /\ new_id[q] = NoId
        /\ store[cookie[r]] = Some(session[q].entries)

====
